---- MODULE Spec2Model ----
(***************************************************************************)
(* Model of astromodels/functions/apec.py: the four spectral function      *)
(* classes APEC, VAPEC (plasma emission through a pyatomdb CIESession) and  *)
(* PhAbs, TbAbs (absorption through a cross-section table read from a FITS  *)
(* file).                                                                   *)
(*                                                                          *)
(* One function instance is constructed (cls says of which class) and the   *)
(* caller then invokes its methods in any order with any arguments.         *)
(* Instances share no state, so one instance at a time loses nothing.       *)
(*                                                                          *)
(* Numbers.  Energies are exact multiples of a tick; the grid values are    *)
(* multiples of four ticks so that the two halvings of evaluate are exact.  *)
(* A redshift argument h stands for z = h/2, so 1 + z = (2 + h)/2.          *)
(* Floating-point rounding is not modelled.                                 *)
(***************************************************************************)
EXTENDS Integers, Sequences, FiniteSets, TLC

VARIABLES cls, session, xsect_ene, xsect_val, call, result

vars == <<cls, session, xsect_ene, xsect_val, call, result>>

(***************************************************************************)
(* Bounds of the model.                                                     *)
(***************************************************************************)
MaxLen == 3          \* longest energy grid passed to evaluate
MaxEnergy == 3       \* grid energies are 4*k*k ticks, k in 1..MaxEnergy
MaxHalfRedshift == 1 \* redshift arguments are 0 .. MaxHalfRedshift halves
MaxAbund == 1        \* abund arguments are 0 .. MaxAbund
MaxNH == 2           \* NH arguments are 1 .. MaxNH

MaxZ == 30           \* heaviest element of the abundance lists

Classes == {"APEC", "VAPEC", "PhAbs", "TbAbs"}

\* A Python attribute that may be missing: None, or Some(v).
None == <<>>
Some(v) == <<v>>

(***************************************************************************)
(* Inputs.                                                                  *)
(***************************************************************************)
Energies == {4 * k * k : k \in 1..MaxEnergy}

RECURSIVE GridsOfLen(_)
GridsOfLen(n) ==
    IF n = 0 THEN {<<>>}
    ELSE {Append(g, e) : g \in GridsOfLen(n - 1), e \in Energies}

StrictlyIncreasing(s) == \A i \in 1..(Len(s) - 1) : s[i] < s[i + 1]

\* Energy grids: the increasing sequences of bin centres, and the pairs of two
\* equal centres.
Grids ==
    UNION {{g \in GridsOfLen(n) : StrictlyIncreasing(g)} : n \in 0..MaxLen}
        \cup {<<e, e>> : e \in Energies}

Redshifts == 0..MaxHalfRedshift
Abunds == 0..MaxAbund
KTs == {1, 2}
Ks == {3}
NHs == 1..MaxNH

\* "" stands for a call that passes no abund_table argument.
NoArg == ""
AbundTableArgs == {NoArg, "AG89", "ASPL", "WILM", "LODD"}
SessionTableArgs == {NoArg, "ASPL"}

(***************************************************************************)
(* numpy and Python sequence primitives, on 1-based TLA+ sequences with     *)
(* the 0-based Python index or slice bound as argument.                     *)
(***************************************************************************)
Min(a, b) == IF a < b THEN a ELSE b
Max(a, b) == IF a > b THEN a ELSE b

\* np.roll(s, -1) rolled the other way
np_roll_right(s, shift) ==
    LET n == Len(s) IN
    [i \in 1..n |-> s[((i - 1 + shift + n) % n) + 1]]

\* np.roll(s, shift): element i of s moves to (i + shift) mod n
np_roll(s, shift) ==
    LET n == Len(s) IN
    [i \in 1..n |-> s[((i - 1 - shift + n) % n) + 1]]

\* s[:stop]
SliceTo(s, stop) ==
    LET n == Len(s)
        k == IF stop < 0 THEN Max(n + stop, 0) ELSE Min(stop, n)
    IN  SubSeq(s, 1, k)

\* a + b and a - b, elementwise on arrays of one length
VAdd(a, b) == [i \in 1..Len(a) |-> a[i] + b[i]]

VSub_swapped(a, b) == [i \in 1..Len(a) |-> b[i] - a[i]]

VSub(a, b) == [i \in 1..Len(a) |-> a[i] - b[i]]

\* a / 2.
Halve(a) == [i \in 1..Len(a) |-> a[i] \div 2]

\* x * (1. + redshift), redshift in halves
Redshifted(x, redshift) == [i \in 1..Len(x) |-> (x[i] * (2 + redshift)) \div 2]

\* np.empty(n): n entries of whatever the memory holds
np_empty(n, junk) == [i \in 1..n |-> junk]

\* s[i] read without a bounds check
GetItem_unchecked(s, i) ==
    LET n == Len(s)
        j == IF i < 0 THEN i + n ELSE i
    IN  IF 0 <= j /\ j < n THEN [ok |-> TRUE, v |-> s[j + 1]]
        ELSE [ok |-> TRUE, v |-> 0]

\* s[i]: the value, or IndexError (ok = FALSE)
GetItem(s, i) ==
    LET n == Len(s)
        j == IF i < 0 THEN i + n ELSE i
    IN  IF 0 <= j /\ j < n THEN [ok |-> TRUE, v |-> s[j + 1]]
        ELSE [ok |-> FALSE, v |-> 0]

\* s[i] = v, i in range
SetItem(s, i, v) == [s EXCEPT ![i + 1] = v]

\* s[lo:hi] = vals
SetSlice(s, lo, hi, vals) ==
    [i \in 1..Len(s) |->
        IF lo < i /\ i <= hi /\ i - lo <= Len(vals) THEN vals[i - lo] ELSE s[i]]

(***************************************************************************)
(* The pyatomdb session, as far as evaluate drives it: the abundance set    *)
(* it was built with, the response (bin edges) and the abundance of every   *)
(* element, relative to the abundance set.                                  *)
(***************************************************************************)
Elements == 1..MaxZ

\* pyatomdb.spectrum.CIESession(abundset=abund_table), abund_table='AG89'
CIESession(abund_table) ==
    [abundset |-> IF abund_table = NoArg THEN "AG89" ELSE abund_table,
     ebins    |-> <<>>,
     abund    |-> [Z \in Elements |-> 1]]

\* sess.set_response(ebounds, raw=True)
set_response(sess, ebounds) == [sess EXCEPT !.ebins = ebounds]

\* sess.set_abund(Zs, abund)
set_abund(sess, Zs, abund) ==
    [sess EXCEPT !.abund = [Z \in Elements |-> IF Z \in Zs THEN abund ELSE @[Z]]]

\* sess.return_spectrum(kT): one flux per bin of the response, a function of
\* the bin, the temperature and the abundances
return_spectrum(sess, kT) ==
    [i \in 1..(Len(sess.ebins) - 1) |->
        [lo |-> sess.ebins[i], hi |-> sess.ebins[i + 1], kT |-> kT,
         abundset |-> sess.abundset, abund |-> sess.abund]]

\* K * (flux / binsize / 1e-14), elementwise, kept as the term it is
Spectrum(K, flux, binsize) ==
    [i \in 1..Len(flux) |-> [K |-> K, flux |-> flux[i], per |-> binsize[i], norm |-> "1e-14"]]

APEC_elements ==
    {6, 7, 8, 9, 10, 11, 12, 13, 14, 16, 17, 18, 19, 20, 21, 22, 23, 24, 25,
     26, 27, 28, 29, 30}

VAPEC_elements ==
    {3, 4, 5, 6, 7, 8, 9, 10, 11, 12, 13, 14, 16, 17, 18, 19, 20, 21, 22, 23,
     24, 25, 26, 27, 28, 29, 30}

\* What a call leaves behind: how it ended, what it returned, the session it
\* leaves, the locals it computed, the session methods it called, in order,
\* and whether the session it found had a response from an earlier call.
Raised(self_session) ==
    [outcome |-> "error", ret |-> <<>>, session |-> self_session,
     ebounds |-> <<>>, binsize |-> <<>>, calls |-> <<>>, reused |-> FALSE]

\* evaluate that leaves the abundances alone when abund is the default 1, taking
\* the session to hold the default already
APEC_evaluate_skipping(self_session, x, K, kT, abund, redshift, junk) ==
    IF self_session = None THEN Raised(self_session)           \* self.session
    ELSE
    LET sess     == self_session[1]
        nval     == Len(x)
        xz       == Redshifted(x, redshift)
        ebplus   == Halve(SliceTo(VAdd(np_roll(xz, -1), xz), nval - 1))
        ebounds0 == np_empty(nval + 1, junk)
        ebounds1 == SetSlice(ebounds0, 1, nval, ebplus)
        xz_0     == GetItem(xz, 0)
        ebplus_0 == GetItem(ebplus, 0)
        xz_n     == GetItem(xz, nval - 1)
        ebplus_n == GetItem(ebplus, nval - 2)
    IN  IF ~(ebplus_0.ok /\ xz_0.ok) THEN Raised(self_session)  \* IndexError
        ELSE IF ~(xz_n.ok /\ ebplus_n.ok) THEN Raised(self_session)
        ELSE
        LET ebounds2 == SetItem(ebounds1, 0, xz_0.v - (ebplus_0.v - xz_0.v))
            ebounds  == SetItem(ebounds2, nval, xz_n.v + (xz_n.v - ebplus_n.v))
            binsize  == SliceTo(VSub(np_roll(ebounds, -1), ebounds), nval)
            s1       == set_response(sess, ebounds)
            s2       == IF abund = 1 THEN s1 ELSE set_abund(s1, APEC_elements, abund)
            flux     == return_spectrum(s2, kT)
        IN  [outcome |-> "ok", ret |-> Spectrum(K, flux, binsize),
             session |-> Some(s2), ebounds |-> ebounds, binsize |-> binsize,
             calls |-> IF abund = 1 THEN <<"set_response", "return_spectrum">>
                       ELSE <<"set_response", "set_abund", "return_spectrum">>,
             reused |-> sess.ebins # <<>>]

\* APEC.evaluate(x, K, kT, abund, redshift)
APEC_evaluate(self_session, x, K, kT, abund, redshift, junk) ==
    IF self_session = None THEN Raised(self_session)           \* self.session
    ELSE
    LET sess     == self_session[1]
        nval     == Len(x)
        xz       == Redshifted(x, redshift)
        ebplus   == Halve(SliceTo(VAdd(np_roll(xz, -1), xz), nval - 1))
        ebounds0 == np_empty(nval + 1, junk)
        ebounds1 == SetSlice(ebounds0, 1, nval, ebplus)
        xz_0     == GetItem(xz, 0)
        ebplus_0 == GetItem(ebplus, 0)
        xz_n     == GetItem(xz, nval - 1)
        ebplus_n == GetItem(ebplus, nval - 2)
    IN  IF ~(ebplus_0.ok /\ xz_0.ok) THEN Raised(self_session)  \* IndexError
        ELSE IF ~(xz_n.ok /\ ebplus_n.ok) THEN Raised(self_session)
        ELSE
        LET ebounds2 == SetItem(ebounds1, 0, xz_0.v - (ebplus_0.v - xz_0.v))
            ebounds  == SetItem(ebounds2, nval, xz_n.v + (xz_n.v - ebplus_n.v))
            binsize  == SliceTo(VSub(np_roll(ebounds, -1), ebounds), nval)
            s1       == set_response(sess, ebounds)
            s2       == set_abund(s1, APEC_elements, abund)
            flux     == return_spectrum(s2, kT)
        IN  [outcome |-> "ok", ret |-> Spectrum(K, flux, binsize),
             session |-> Some(s2), ebounds |-> ebounds, binsize |-> binsize,
             calls |-> <<"set_response", "set_abund", "return_spectrum">>,
             reused |-> sess.ebins # <<>>]

\* VAPEC.evaluate(x, K, kT, abund, redshift)
VAPEC_evaluate(self_session, x, K, kT, abund, redshift, junk) ==
    IF self_session = None THEN Raised(self_session)           \* self.session
    ELSE
    LET sess     == self_session[1]
        nval     == Len(x)
        xz       == Redshifted(x, redshift)
        ebplus   == Halve(SliceTo(VAdd(np_roll(xz, -1), xz), nval - 1))
        ebounds0 == np_empty(nval + 1, junk)
        ebounds1 == SetSlice(ebounds0, 1, nval, ebplus)
        xz_0     == GetItem(xz, 0)
        ebplus_0 == GetItem(ebplus, 0)
        xz_n     == GetItem(xz, nval - 1)
        ebplus_n == GetItem(ebplus, nval - 2)
    IN  IF ~(ebplus_0.ok /\ xz_0.ok) THEN Raised(self_session)  \* IndexError
        ELSE IF ~(xz_n.ok /\ ebplus_n.ok) THEN Raised(self_session)
        ELSE
        LET ebounds2 == SetItem(ebounds1, 0, xz_0.v - (ebplus_0.v - xz_0.v))
            ebounds  == SetItem(ebounds2, nval, xz_n.v + (xz_n.v - ebplus_n.v))
            binsize  == SliceTo(VSub(np_roll(ebounds, -1), ebounds), nval)
            s1       == set_response(sess, ebounds)
            s2       == set_abund(s1, VAPEC_elements, abund)
            flux     == return_spectrum(s2, kT)
        IN  [outcome |-> "ok", ret |-> Spectrum(K, flux, binsize),
             session |-> Some(s2), ebounds |-> ebounds, binsize |-> binsize,
             calls |-> <<"set_response", "set_abund", "return_spectrum">>,
             reused |-> sess.ebins # <<>>]

(***************************************************************************)
(* Files.  A path is the sequence of its components.  The user data        *)
(* directory holds the cross-section tables in its xsect directory.         *)
(***************************************************************************)
\* configuration.get_user_data_path()
get_user_data_path == <<"user_data_path">>

\* os.path.join(a, name)
os_path_join(a, name) == Append(a, name)

\* a + '/c1/c2...': the string a with more components appended
PathPlus(a, components) == a \o components

\* the directory a path lies in
DirName(path) == SubSeq(path, 1, Len(path) - 1)

XsectFileNames ==
    {"xsect_phabs_angr.fits", "xsect_phabs_aspl.fits", "xsect_tbabs_angr.fits",
     "xsect_tbabs_aspl.fits", "xsect_tbabs_wilm.fits"}

\* the files that exist: the five tables, directly in <user data path>/xsect
InstalledFiles ==
    {os_path_join(os_path_join(get_user_data_path, "xsect"), name) : name \in XsectFileNames}

\* fxs[1].data of an installed file: the columns ENERGY and SIGMA
FileData(path) ==
    LET name == path[Len(path)] IN
    [ENERGY |-> <<8, 24, 40>>,
     SIGMA  |-> CASE name = "xsect_phabs_angr.fits" -> <<16, 8, 4>>
                  [] name = "xsect_phabs_aspl.fits" -> <<24, 16, 4>>
                  [] name = "xsect_tbabs_angr.fits" -> <<32, 8, 0>>
                  [] name = "xsect_tbabs_aspl.fits" -> <<40, 16, 8>>
                  [] OTHER                          -> <<48, 24, 12>>]

\* fits.open(path): the file's table, or an error when there is no such file
fits_open(path) ==
    IF path \in InstalledFiles
    THEN [ok |-> TRUE, data |-> FileData(path)]
    ELSE [ok |-> FALSE, data |-> [ENERGY |-> <<>>, SIGMA |-> <<>>]]

\* What init_xsect leaves behind: how it ended, the attributes it leaves, the
\* path it opened and the table its message names ("" when it prints nothing).
XsectLoaded(self_ene, self_val, path, printed) ==
    LET fxs == fits_open(path) IN
    IF fxs.ok
    THEN [outcome |-> "ok", xsect_ene |-> Some(fxs.data.ENERGY),
          xsect_val |-> Some(fxs.data.SIGMA), opened |-> path, printed |-> printed]
    ELSE [outcome |-> "error", xsect_ene |-> self_ene, xsect_val |-> self_val,
          opened |-> path, printed |-> printed]

\* PhAbs.init_xsect(abund_table='AG89')
PhAbs_init_xsect(self_ene, self_val, arg) ==
    LET abund_table   == IF arg = NoArg THEN "AG89" ELSE arg
        path_to_xsect == os_path_join(get_user_data_path, "xsect")
    IN  IF abund_table = "AG89"
        THEN XsectLoaded(self_ene, self_val,
                         PathPlus(path_to_xsect, <<"xsect_phabs_angr.fits">>), "")
        ELSE IF abund_table = "ASPL"
        THEN XsectLoaded(self_ene, self_val,
                         PathPlus(path_to_xsect, <<"xsect_phabs_aspl.fits">>), "")
        ELSE XsectLoaded(self_ene, self_val,
                         PathPlus(path_to_xsect, <<"xsect_phabs_angr.fits">>), "AG89")

\* TbAbs.init_xsect(abund_table='AG89')
TbAbs_init_xsect(self_ene, self_val, arg) ==
    LET abund_table   == IF arg = NoArg THEN "AG89" ELSE arg
        path_to_xsect == os_path_join(get_user_data_path, "xsect")
    IN  IF abund_table = "AG89"
        THEN XsectLoaded(self_ene, self_val,
                         PathPlus(path_to_xsect, <<"xsect_tbabs_angr.fits">>), "")
        ELSE IF abund_table = "ASPL"
        THEN XsectLoaded(self_ene, self_val,
                         PathPlus(path_to_xsect, <<"xsect", "xsect_tbabs_aspl.fits">>), "")
        ELSE IF abund_table = "WILM"
        THEN XsectLoaded(self_ene, self_val,
                         PathPlus(path_to_xsect, <<"xsect", "xsect_tbabs_wilm.fits">>), "")
        ELSE XsectLoaded(self_ene, self_val,
                         PathPlus(path_to_xsect, <<"xsect", "xsect_tbabs_wilm.fits">>), "WILM")

\* np.interp(x, xp, fp) at one point x: linear between the two sample points
\* around x, the end values outside the samples
np_interp(x, xp, fp) ==
    LET n == Len(xp) IN
    IF x <= xp[1] THEN fp[1]
    ELSE IF x >= xp[n] THEN fp[n]
    ELSE LET j == CHOOSE k \in 1..(n - 1) : xp[k] <= x /\ x < xp[k + 1]
         IN  fp[j] + ((fp[j + 1] - fp[j]) * (x - xp[j])) \div (xp[j + 1] - xp[j])

\* np.exp(y), kept as the term it is
np_exp(y) == [exp |-> y]

\* evaluate with the sign of the exponent lost
TbAbs_evaluate_unsigned(self_ene, self_val, x, NH) ==
    IF self_ene = None \/ self_val = None
    THEN [outcome |-> "error", ret |-> <<>>]
    ELSE [outcome |-> "ok",
          ret |-> [i \in 1..Len(x) |->
                      np_exp(NH * np_interp(x[i], self_ene[1], self_val[1]))]]

\* evaluate that skips the check of the table
PhAbs_evaluate_unchecked(self_ene, self_val, x, NH) ==
    IF self_ene = None \/ self_val = None
    THEN [outcome |-> "ok", ret |-> [i \in 1..Len(x) |-> np_exp(0)]]
    ELSE [outcome |-> "ok",
          ret |-> [i \in 1..Len(x) |->
                      np_exp(0 - NH * np_interp(x[i], self_ene[1], self_val[1]))]]

\* PhAbs.evaluate(x, NH)
PhAbs_evaluate(self_ene, self_val, x, NH) ==
    IF self_ene = None \/ self_val = None                      \* the assert
    THEN [outcome |-> "error", ret |-> <<>>]
    ELSE LET xsect_interp == [i \in 1..Len(x) |-> np_interp(x[i], self_ene[1], self_val[1])]
             spec         == [i \in 1..Len(x) |-> np_exp(0 - NH * xsect_interp[i])]
         IN  [outcome |-> "ok", ret |-> spec]

\* TbAbs.evaluate(x, NH)
TbAbs_evaluate(self_ene, self_val, x, NH) ==
    IF self_ene = None \/ self_val = None                      \* the assert
    THEN [outcome |-> "error", ret |-> <<>>]
    ELSE LET xsect_interp == [i \in 1..Len(x) |-> np_interp(x[i], self_ene[1], self_val[1])]
             spec         == [i \in 1..Len(x) |-> np_exp(0 - NH * xsect_interp[i])]
         IN  [outcome |-> "ok", ret |-> spec]

(***************************************************************************)
(* The state machine.  call is the last method call with the arguments it   *)
(* had used when it ended, result what that call left behind.               *)
(***************************************************************************)
NoCall ==
    [op |-> "none", abund_table |-> NoArg, x |-> <<>>, K |-> 0, kT |-> 0,
     abund |-> 0, redshift |-> 0, NH |-> 0]

NoResult ==
    [outcome |-> "none", ret |-> <<>>, ebounds |-> <<>>, binsize |-> <<>>,
     calls |-> <<>>, reused |-> FALSE, opened |-> <<>>, printed |-> ""]

Init ==
    /\ cls \in Classes
    /\ session = None
    /\ xsect_ene = None
    /\ xsect_val = None
    /\ call = NoCall
    /\ result = NoResult

\* APEC.init_session(abund_table='AG89')
Call_APEC_init_session ==
    /\ cls = "APEC"
    /\ \E arg \in SessionTableArgs :
        /\ session' = Some(CIESession(arg))
        /\ call' = [NoCall EXCEPT !.op = "init_session", !.abund_table = arg]
        /\ result' = [NoResult EXCEPT !.outcome = "ok"]
    /\ UNCHANGED <<cls, xsect_ene, xsect_val>>

\* VAPEC.init_session(abund_table='AG89')
Call_VAPEC_init_session ==
    /\ cls = "VAPEC"
    /\ \E arg \in SessionTableArgs :
        /\ session' = Some(CIESession(arg))
        /\ call' = [NoCall EXCEPT !.op = "init_session", !.abund_table = arg]
        /\ result' = [NoResult EXCEPT !.outcome = "ok"]
    /\ UNCHANGED <<cls, xsect_ene, xsect_val>>

\* what np.empty finds in memory; evaluate writes every entry before it reads it
Junk == {0 - 7}

EvaluateArgs ==
    [op : {"evaluate"}, abund_table : {NoArg}, x : Grids, K : Ks, kT : KTs,
     abund : Abunds, redshift : Redshifts, NH : {0}]

\* the arguments a call of evaluate had used when it ended with outcome
Used(c, self_session, outcome) ==
    IF outcome = "ok" THEN c
    ELSE IF self_session = None THEN [NoCall EXCEPT !.op = c.op]
    ELSE [NoCall EXCEPT !.op = c.op, !.x = c.x, !.redshift = c.redshift]

Call_APEC_evaluate ==
    /\ cls = "APEC"
    /\ \E c \in EvaluateArgs, junk \in Junk :
        \E r \in {APEC_evaluate(session, c.x, c.K, c.kT, c.abund, c.redshift, junk)} :
        /\ call' = Used(c, session, r.outcome)
        /\ session' = r.session
        /\ result' = [NoResult EXCEPT !.outcome = r.outcome, !.ret = r.ret,
                         !.ebounds = r.ebounds, !.binsize = r.binsize, !.calls = r.calls,
                         !.reused = r.reused]
    /\ UNCHANGED <<cls, xsect_ene, xsect_val>>

Call_VAPEC_evaluate ==
    /\ cls = "VAPEC"
    /\ \E c \in EvaluateArgs, junk \in Junk :
        \E r \in {VAPEC_evaluate(session, c.x, c.K, c.kT, c.abund, c.redshift, junk)} :
        /\ call' = Used(c, session, r.outcome)
        /\ session' = r.session
        /\ result' = [NoResult EXCEPT !.outcome = r.outcome, !.ret = r.ret,
                         !.ebounds = r.ebounds, !.binsize = r.binsize, !.calls = r.calls,
                         !.reused = r.reused]
    /\ UNCHANGED <<cls, xsect_ene, xsect_val>>

Call_PhAbs_init_xsect ==
    /\ cls = "PhAbs"
    /\ \E arg \in AbundTableArgs :
        \E r \in {PhAbs_init_xsect(xsect_ene, xsect_val, arg)} :
        /\ call' = [NoCall EXCEPT !.op = "init_xsect", !.abund_table = arg]
        /\ xsect_ene' = r.xsect_ene
        /\ xsect_val' = r.xsect_val
        /\ result' = [NoResult EXCEPT !.outcome = r.outcome, !.opened = r.opened,
                         !.printed = r.printed]
    /\ UNCHANGED <<cls, session>>

Call_TbAbs_init_xsect ==
    /\ cls = "TbAbs"
    /\ \E arg \in AbundTableArgs :
        \E r \in {TbAbs_init_xsect(xsect_ene, xsect_val, arg)} :
        /\ call' = [NoCall EXCEPT !.op = "init_xsect", !.abund_table = arg]
        /\ xsect_ene' = r.xsect_ene
        /\ xsect_val' = r.xsect_val
        /\ result' = [NoResult EXCEPT !.outcome = r.outcome, !.opened = r.opened,
                         !.printed = r.printed]
    /\ UNCHANGED <<cls, session>>

\* evaluate that multiplies the table by NH in place
Call_PhAbs_evaluate_scaling ==
    /\ cls = "PhAbs"
    /\ \E x \in Grids, NH \in NHs :
        \E r \in {PhAbs_evaluate(xsect_ene, xsect_val, x, NH)} :
        /\ call' = IF r.outcome = "ok"
                   THEN [NoCall EXCEPT !.op = "evaluate", !.x = x, !.NH = NH]
                   ELSE [NoCall EXCEPT !.op = "evaluate"]
        /\ result' = [NoResult EXCEPT !.outcome = r.outcome, !.ret = r.ret]
        /\ xsect_val' = IF r.outcome = "ok"
                        THEN Some([i \in 1..Len(xsect_val[1]) |-> NH * xsect_val[1][i]])
                        ELSE xsect_val
    /\ UNCHANGED <<cls, session, xsect_ene>>

Call_PhAbs_evaluate ==
    /\ cls = "PhAbs"
    /\ \E x \in Grids, NH \in NHs :
        \E r \in {PhAbs_evaluate(xsect_ene, xsect_val, x, NH)} :
        /\ call' = IF r.outcome = "ok"
                   THEN [NoCall EXCEPT !.op = "evaluate", !.x = x, !.NH = NH]
                   ELSE [NoCall EXCEPT !.op = "evaluate"]
        /\ result' = [NoResult EXCEPT !.outcome = r.outcome, !.ret = r.ret]
    /\ UNCHANGED <<cls, session, xsect_ene, xsect_val>>

Call_TbAbs_evaluate ==
    /\ cls = "TbAbs"
    /\ \E x \in Grids, NH \in NHs :
        \E r \in {TbAbs_evaluate(xsect_ene, xsect_val, x, NH)} :
        /\ call' = IF r.outcome = "ok"
                   THEN [NoCall EXCEPT !.op = "evaluate", !.x = x, !.NH = NH]
                   ELSE [NoCall EXCEPT !.op = "evaluate"]
        /\ result' = [NoResult EXCEPT !.outcome = r.outcome, !.ret = r.ret]
    /\ UNCHANGED <<cls, session, xsect_ene, xsect_val>>

Next ==
    \/ Call_APEC_init_session
    \/ Call_APEC_evaluate
    \/ Call_VAPEC_init_session
    \/ Call_VAPEC_evaluate
    \/ Call_PhAbs_init_xsect
    \/ Call_PhAbs_evaluate
    \/ Call_TbAbs_init_xsect
    \/ Call_TbAbs_evaluate

Spec == Init /\ [][Next]_vars

(***************************************************************************)
(* Properties.                                                              *)
(***************************************************************************)
Plasma == {"APEC", "VAPEC"}
Absorbers == {"PhAbs", "TbAbs"}

EvaluateOk == call.op = "evaluate" /\ result.outcome = "ok"

RECURSIVE SumSeq(_)
SumSeq(s) == IF s = <<>> THEN 0 ELSE s[1] + SumSeq(Tail(s))

\* C1: in APEC.evaluate and VAPEC.evaluate, for every increasing grid of
\* nval >= 2 positive energies and every redshift >= 0, evaluate computes
\* ebounds with nval + 1 entries, strictly increasing, with
\* ebounds[i] < x[i]*(1+redshift) < ebounds[i+1] for every centre and every
\* interior edge the midpoint of the two redshifted centres around it; these
\* are the edges the session receives.
C1_EdgesBracketCentres ==
    (cls \in Plasma /\ call.op = "evaluate" /\ Len(call.x) >= 2
        /\ StrictlyIncreasing(call.x)) =>
        LET nval == Len(call.x)
            xz   == Redshifted(call.x, call.redshift)
            e    == result.ebounds
        IN  /\ result.outcome = "ok"
            /\ session[1].ebins = e
            /\ Len(e) = nval + 1
            /\ StrictlyIncreasing(e)
            /\ \A i \in 1..nval : e[i] < xz[i] /\ xz[i] < e[i + 1]
            /\ \A i \in 2..nval : 2 * e[i] = xz[i - 1] + xz[i]

C1_Witness ==
    /\ cls = "VAPEC"
    /\ EvaluateOk
    /\ call.x = <<4, 16, 36>>
    /\ call.redshift = 1
    /\ result.ebounds = <<0 - 3, 15, 39, 69>>

\* C2: every successful APEC/VAPEC evaluate call sends the session
\* set_response, set_abund, return_spectrum in that order, and returns what
\* the same call returns as the first call after init_session, whatever
\* calls came before it.
C2_NoPersistedState ==
    (cls \in Plasma /\ EvaluateOk) =>
        /\ result.calls = <<"set_response", "set_abund", "return_spectrum">>
        /\ \A junk \in Junk :
            LET fresh == Some(CIESession(session[1].abundset)) IN
            result.ret =
                IF cls = "APEC"
                THEN APEC_evaluate(fresh, call.x, call.K, call.kT, call.abund,
                                   call.redshift, junk).ret
                ELSE VAPEC_evaluate(fresh, call.x, call.K, call.kT, call.abund,
                                    call.redshift, junk).ret

\* a call on a session that an earlier call left with other edges and other
\* abundances than the ones this call asks for
C2_Witness ==
    /\ cls = "APEC"
    /\ EvaluateOk
    /\ result.reused
    /\ call.abund = 1
    /\ call.x = <<4, 16>>
    /\ Len(result.ret) = 2

\* C3 as stated: once the cross-section table is loaded, no call changes it.
C3_TableNeverChanges ==
    [][(xsect_ene # None /\ xsect_val # None) =>
            (xsect_ene' = xsect_ene /\ xsect_val' = xsect_val)]_vars

\* C3, amended: the table is held from one init_xsect to the next: once loaded
\* it is never unloaded, evaluate and a failed init_xsect leave it as it
\* is, and a call that changes it is a successful init_xsect, which sets
\* both arrays to the columns of the file it opened.
C3_TableHeldUntilReload ==
    [][/\ (xsect_ene # None /\ xsect_val # None) =>
              (xsect_ene' # None /\ xsect_val' # None)
       /\ (xsect_ene' # xsect_ene \/ xsect_val' # xsect_val) =>
              /\ call'.op = "init_xsect"
              /\ result'.outcome = "ok"
              /\ xsect_ene' = Some(FileData(result'.opened).ENERGY)
              /\ xsect_val' = Some(FileData(result'.opened).SIGMA)]_vars

C3_Witness ==
    /\ cls = "PhAbs"
    /\ EvaluateOk
    /\ call.x = <<4, 16, 36>>
    /\ xsect_val = Some(FileData(<<"xsect_phabs_aspl.fits">>).SIGMA)

Initialised ==
    IF cls \in Absorbers THEN xsect_ene # None /\ xsect_val # None
    ELSE session # None

\* C4: evaluate returns a spectrum only on an initialised instance (the table
\* attributes set for PhAbs and TbAbs, a session for APEC and VAPEC); on an
\* instance whose init_xsect / init_session never ran it ends in an error and
\* returns nothing.
C4_InitThenEvaluate ==
    call.op = "evaluate" =>
        /\ result.outcome = "ok" => Initialised
        /\ ~Initialised => (result.outcome = "error" /\ result.ret = <<>>)

C4_Witness ==
    /\ cls = "PhAbs"
    /\ call.op = "evaluate"
    /\ ~Initialised
    /\ result.outcome = "error"

Recognised(class) ==
    IF class = "PhAbs" THEN {"AG89", "ASPL"} ELSE {"AG89", "ASPL", "WILM"}

InitXsectOf(class, arg) ==
    IF class = "PhAbs" THEN PhAbs_init_xsect(None, None, arg)
    ELSE TbAbs_init_xsect(None, None, arg)

\* C5: init_xsect never fails on an unrecognised abund_table and loads the
\* table its message names, the file that PhAbs loads for 'AG89' and TbAbs
\* for 'WILM'; with no argument both classes load their AG89 table.
C5_UnknownTableReverts ==
    (cls \in Absorbers /\ call.op = "init_xsect") =>
        /\ (call.abund_table \notin Recognised(cls) \cup {NoArg}) =>
              /\ result.outcome = "ok"
              /\ result.printed = (IF cls = "PhAbs" THEN "AG89" ELSE "WILM")
              /\ result.opened = InitXsectOf(cls, result.printed).opened
              /\ xsect_val = Some(FileData(result.opened).SIGMA)
        /\ (call.abund_table = NoArg) =>
              /\ result.outcome = "ok"
              /\ result.opened = InitXsectOf(cls, "AG89").opened
              /\ xsect_val = Some(FileData(result.opened).SIGMA)

\* C6: PhAbs.evaluate and TbAbs.evaluate are one function of (x, NH, table):
\* one value exp(-NH * sigma(x[i])) per input energy, sigma the interpolation
\* of xsect_val over xsect_ene, and evaluate leaves the table unchanged.
C6_SameAbsorption ==
    [][(cls \in Absorbers /\ call'.op = "evaluate") =>
          /\ xsect_ene' = xsect_ene
          /\ xsect_val' = xsect_val
          /\ result'.outcome = "ok" =>
                /\ result'.ret = PhAbs_evaluate(xsect_ene, xsect_val, call'.x, call'.NH).ret
                /\ result'.ret = TbAbs_evaluate(xsect_ene, xsect_val, call'.x, call'.NH).ret
                /\ Len(result'.ret) = Len(call'.x)
                /\ \A i \in 1..Len(call'.x) :
                      result'.ret[i] =
                          np_exp(0 - call'.NH * np_interp(call'.x[i], xsect_ene[1], xsect_val[1]))]_vars

C6_Witness ==
    /\ cls = "PhAbs"
    /\ EvaluateOk
    /\ call.NH = 2
    /\ call.x = <<4, 16, 36>>
    /\ result.ret = <<np_exp(0 - 32), np_exp(0 - 24), np_exp(0 - 10)>>

\* C7: every branch of PhAbs.init_xsect and TbAbs.init_xsect opens a file
\* directly in <user data path>/xsect.
C7_OneXsectDirectory ==
    (cls \in Absorbers /\ call.op = "init_xsect") =>
        DirName(result.opened) = os_path_join(get_user_data_path, "xsect")

\* C8: APEC.evaluate and VAPEC.evaluate on a grid of fewer than two points end
\* in an error with no call to the session and the session as it was.
C8_ShortGridFails ==
    [][(cls \in Plasma /\ call'.op = "evaluate" /\ Len(call'.x) < 2) =>
          /\ result'.outcome = "error"
          /\ result'.calls = <<>>
          /\ result'.ret = <<>>
          /\ session' = session]_vars

C8_Witness ==
    /\ cls = "APEC"
    /\ call.op = "evaluate"
    /\ Len(call.x) = 1
    /\ result.outcome = "error"
    /\ session # None
    /\ session[1].ebins # <<>>

\* C9: binsize has nval entries, binsize[i] = ebounds[i+1] - ebounds[i] (the
\* wrap-around entry of np.roll dropped); they are what the spectrum is
\* divided by, they sum to ebounds[nval] - ebounds[0], and on an increasing
\* grid each is strictly positive.
C9_BinSizes ==
    (cls \in Plasma /\ EvaluateOk) =>
        LET nval == Len(call.x)
            e    == result.ebounds
            b    == result.binsize
        IN  /\ Len(b) = nval
            /\ \A i \in 1..nval : b[i] = e[i + 1] - e[i]
            /\ Len(result.ret) = nval
            /\ \A i \in 1..nval : result.ret[i].per = b[i]
            /\ SumSeq(b) = e[nval + 1] - e[1]
            /\ StrictlyIncreasing(call.x) => \A i \in 1..nval : b[i] > 0

C9_Witness ==
    /\ cls = "APEC"
    /\ EvaluateOk
    /\ call.x = <<4, 16, 36>>
    /\ call.redshift = 0
    /\ result.binsize = <<12, 16, 20>>

====
